---- MODULE Spec2Model ----
(***************************************************************************)
(* A model of the caching layers and of the GPU telemetry loop of the      *)
(* JARVIS local services:                                                  *)
(*   src/Piper/piper_server.py  audio cache of the Piper TTS wrapper       *)
(*   src/vision_server.py       embedding cache of the vision server       *)
(*   src/embedding_server.py    embedding cache of the text embedder       *)
(*   src/gpu_monitor.py         monitor loop, history, subscribers         *)
(* The services are independent processes; each has its own specification  *)
(* over its own variables, the others' variables staying as initialised.   *)
(***************************************************************************)
EXTENDS Integers, Sequences, FiniteSets, TLC

VARIABLES
    \* ---- src/Piper/piper_server.py
    audio_cache,    \* the module-level dict, in insertion order: <<[key, data, ts], ...>>
    now,            \* time.time(), in model seconds
    th,             \* per request thread: the position in do_POST and its locals
    \* ---- src/vision_server.py
    vcache,         \* VisionServer.cache: cache key -> embedding
    vresp,          \* the last /embed/image response and the image it answers
    \* ---- src/embedding_server.py
    embedding_cache, \* the module-level dict, as its entries in insertion order
    enc,            \* the /embed request in progress and the last response
    \* ---- src/gpu_monitor.py
    running,        \* GpuMonitor.running
    history,        \* GpuMonitor.history, oldest first; a snapshot is its sample number
    clients,        \* GpuMonitor.clients
    sampleSeq,      \* the number of snapshots taken by the monitor loop
    mon,            \* monitor_loop: its position and the locals of one iteration
    conn,           \* per websocket: the state of the connection
    hpc,            \* per websocket: the position of its handle_client task
    hmsg,           \* per websocket: the frame its handler is sending
    rec,            \* a call of get_recommendations: the snapshot and the result
    det             \* a call of detect_models: the process list and the result

piperVars  == <<audio_cache, now, th>>
visionVars == <<vcache, vresp>>
embedVars  == <<embedding_cache, enc>>
gpuVars    == <<running, history, clients, sampleSeq, mon, conn, hpc, hmsg>>
fnVars     == <<rec, det>>
vars == <<audio_cache, now, th, vcache, vresp, embedding_cache, enc,
          running, history, clients, sampleSeq, mon, conn, hpc, hmsg, rec, det>>

\* What each service leaves alone: the other services' state.
PiperFrame  == UNCHANGED <<visionVars, embedVars, gpuVars, fnVars>>
VisionFrame == UNCHANGED <<piperVars, embedVars, gpuVars, fnVars>>
EmbedFrame  == UNCHANGED <<piperVars, visionVars, gpuVars, fnVars>>
GpuFrame    == UNCHANGED <<piperVars, visionVars, embedVars, fnVars>>
FnFrame     == UNCHANGED <<piperVars, visionVars, embedVars, gpuVars>>

\* Python's None, among values that are sequences of characters.
None == <<"None">>

Max(a, b) == IF a >= b THEN a ELSE b

\* The elements of a sequence.
Range(s) == {s[i] : i \in 1..Len(s)}

\* s without its i-th element.
RemoveAt(s, i) == [j \in 1..(Len(s) - 1) |-> IF j < i THEN s[j] ELSE s[j + 1]]

(***************************************************************************)
(* Piper TTS wrapper: src/Piper/piper_server.py                            *)
(***************************************************************************)

\* CACHE_MAX_SIZE = 50 and CACHE_TTL_SECONDS = 300 in the source; the model
\* keeps their roles at a size TLC can enumerate.
CACHE_MAX_SIZE == 2
CACHE_TTL_SECONDS == 2
\* The clock runs from 0 to MaxTime.
MaxTime == 3
\* The clock of the threaded specification runs from 0 to ThreadsMaxTime.
ThreadsMaxTime == 2
\* The request threads of ThreadedTCPServer that the threaded specification runs.
PiperThreads == {1, 2}

\* Texts of the requests, as sequences of characters; <<>> is the empty text.
PiperTexts == {<<>>, <<"a">>, <<"b">>, <<"c">>}

\* data.get('speaker_id', data.get('speaker', 0)) and the three defaults of
\* lines 81-83, each as str() prints it.
DefaultSpeaker == <<"0">>
DefaultLengthScale == <<"0", ".", "7", "5">>
DefaultNoiseScale == <<"0", ".", "6", "6", "7">>
DefaultNoiseW == <<"0", ".", "8">>

\* The requests whose body is a JSON object, by the values do_POST reads from it.
PiperRequests ==
    [body : {"json_object"}, text : PiperTexts, speaker_id : {DefaultSpeaker},
     length_scale : {DefaultLengthScale}, noise_scale : {DefaultNoiseScale},
     noise_w : {DefaultNoiseW}]

\* f"{text}_{speaker_id}_{length_scale}_{noise_scale}_{noise_w}"
CacheKey(req) ==
    req.text \o <<"_">> \o req.speaker_id \o <<"_">> \o req.length_scale
        \o <<"_">> \o req.noise_scale \o <<"_">> \o req.noise_w

\* What the Piper binary leaves in the output file for a request when it exits
\* with code 0: the WAV bytes of the text, or nothing at all (the file that
\* NamedTemporaryFile created is still empty).
EmptyAudio == <<>>
WavOf(req) ==
    <<"wav">> \o req.text \o <<"/">> \o req.speaker_id \o <<"/">> \o req.length_scale
        \o <<"/">> \o req.noise_scale \o <<"/">> \o req.noise_w
\* subprocess.run raises (line 143: the binary is missing or cannot be
\* started); the exception leaves _synthesize_audio through its finally clause.
Raised == <<"raised">>
SynthOutcomes(req) == {None, Raised, EmptyAudio, WavOf(req)}

\* A variant of SynthFailed under which no outcome counts as a failure.
SynthFailedNever(out) == FALSE

\* The synthesis failed: _synthesize_audio returned None (lines 152-154, tested
\* at line 104) or raised (caught at line 115).
SynthFailed(out) == out \in {None, Raised}

\* Python truthiness of a value that is None or bytes.
Truthy(v) == v # None /\ v # EmptyAudio

\* ---- the dict audio_cache ------------------------------------------------
CacheKeys(cache) == {cache[i].key : i \in 1..Len(cache)}
InCache(cache, key) == key \in CacheKeys(cache)
IndexOf(cache, key) == CHOOSE i \in 1..Len(cache) : cache[i].key = key
CacheGet(cache, key) == cache[IndexOf(cache, key)]
\* del cache[key]
CacheDel(cache, key) == RemoveAt(cache, IndexOf(cache, key))
\* cache[key] = (data, ts): a present key keeps its place, a new key goes last.
CacheSet(cache, key, data, ts) ==
    IF InCache(cache, key)
    THEN [cache EXCEPT ![IndexOf(cache, key)] = [key |-> key, data |-> data, ts |-> ts]]
    ELSE Append(cache, [key |-> key, data |-> data, ts |-> ts])

\* A variant of Fresh that tests time.time() - timestamp <= CACHE_TTL_SECONDS.
FreshInclusive(ts, t) == t - ts <= CACHE_TTL_SECONDS

\* time.time() - timestamp < CACHE_TTL_SECONDS
Fresh(ts, t) == t - ts < CACHE_TTL_SECONDS

\* A variant of CacheFull that tests len(audio_cache) > CACHE_MAX_SIZE.
CacheFullStrict(cache) == Len(cache) > CACHE_MAX_SIZE

\* len(audio_cache) >= CACHE_MAX_SIZE
CacheFull(cache) == Len(cache) >= CACHE_MAX_SIZE

\* A variant of OldestKey that takes the last key in the dict's order (the
\* latest-inserted one), whatever its timestamp.
LastInsertedKey(cache) == cache[Len(cache)].key

\* min(audio_cache.keys(), key=lambda k: audio_cache[k][1]): the first key, in
\* the dict's order, among those with the least timestamp.
OldestKey(cache) ==
    LET i == CHOOSE i \in 1..Len(cache) :
                 /\ \A j \in 1..Len(cache) : cache[i].ts <= cache[j].ts
                 /\ \A j \in 1..(i - 1) : cache[j].ts > cache[i].ts
    IN  cache[i].key

NoResp == [status |-> 0, body |-> None]
NoReq == [body |-> "none", text |-> None, speaker_id |-> None, length_scale |-> None,
          noise_scale |-> None, noise_w |-> None]
\* A request whose body json.loads rejects (line 78): no value is read from it.
MalformedRequests == {[NoReq EXCEPT !.body = "not_json"]}
\* A handler thread between requests; req, key, oldest_key, invoked and resp
\* are kept from the request it served last.
IdleThread ==
    [pc |-> "idle", req |-> NoReq, key |-> None, data |-> None, ts |-> 0,
     cached_result |-> None, oldest_key |-> None, audio_data |-> None,
     invoked |-> FALSE, resp |-> NoResp]

\* The handler of thread t ends with this status and body.
Respond(t, status, body) ==
    th' = [th EXCEPT ![t] = [IdleThread EXCEPT !.req = th[t].req, !.key = th[t].key,
                                !.oldest_key = th[t].oldest_key,
                                !.invoked = th[t].invoked,
                                !.resp = [status |-> status, body |-> body]]]

\* _get_from_cache returns v to do_POST (line 92).
GetReturns(t, v) == th' = [th EXCEPT ![t].pc = "got", ![t].cached_result = v]

\* do_POST, lines 73-92: parse the body (a body that is not JSON raises in
\* json.loads, and the except clause of lines 115-118 answers 500), reject an
\* empty text (lines 85-88), build the key and enter _get_from_cache, line
\* 178: if key in audio_cache.
DoPost(t, req) ==
    /\ th[t].pc = "idle"
    /\ IF req.body = "not_json"
       THEN th' = [th EXCEPT ![t] = [IdleThread EXCEPT !.req = req,
                                        !.resp = [status |-> 500, body |-> None]]]
       ELSE IF req.text = <<>>
       THEN th' = [th EXCEPT ![t] = [IdleThread EXCEPT !.req = req,
                                        !.resp = [status |-> 400, body |-> None]]]
       ELSE th' = [th EXCEPT ![t] = [IdleThread EXCEPT
                        !.pc = IF InCache(audio_cache, CacheKey(req))
                               THEN "get_read" ELSE "got",
                        !.req = req, !.key = CacheKey(req)]]
    /\ UNCHANGED <<audio_cache, now>>
    /\ PiperFrame

\* line 179: data, timestamp = audio_cache[key]; a KeyError reaches do_POST's
\* except clause (lines 115-118).
GetRead(t) ==
    /\ th[t].pc = "get_read"
    /\ IF InCache(audio_cache, th[t].key)
       THEN th' = [th EXCEPT ![t].pc = "get_check",
                             ![t].data = CacheGet(audio_cache, th[t].key).data,
                             ![t].ts = CacheGet(audio_cache, th[t].key).ts]
       ELSE Respond(t, 500, None)
    /\ UNCHANGED <<audio_cache, now>>
    /\ PiperFrame

\* A variant of GetCheck that refreshes the entry's timestamp when it is read.
GetCheckRefreshes(t) ==
    /\ th[t].pc = "get_check"
    /\ IF Fresh(th[t].ts, now)
       THEN /\ GetReturns(t, th[t].data)
            /\ audio_cache' = CacheSet(audio_cache, th[t].key, th[t].data, now)
       ELSE /\ th' = [th EXCEPT ![t].pc = "get_del"]
            /\ UNCHANGED audio_cache
    /\ UNCHANGED now
    /\ PiperFrame

\* lines 180-182: the age test; a fresh entry's data is returned.
GetCheck(t) ==
    /\ th[t].pc = "get_check"
    /\ IF Fresh(th[t].ts, now)
       THEN GetReturns(t, th[t].data)
       ELSE th' = [th EXCEPT ![t].pc = "get_del"]
    /\ UNCHANGED <<audio_cache, now>>
    /\ PiperFrame

\* line 184: del audio_cache[key], then return None (line 185).
GetDel(t) ==
    /\ th[t].pc = "get_del"
    /\ IF InCache(audio_cache, th[t].key)
       THEN /\ audio_cache' = CacheDel(audio_cache, th[t].key)
            /\ GetReturns(t, None)
       ELSE /\ Respond(t, 500, None)
            /\ UNCHANGED audio_cache
    /\ UNCHANGED now
    /\ PiperFrame

\* do_POST, lines 94-107: a truthy cached_result is served (lines 94-97).
\* Otherwise _synthesize_audio (lines 124-165) runs the binary; None (a
\* non-zero exit code) gives status 500 (lines 104-107), an exception gives
\* status 500 in the except clause (lines 115-118), and with audio
\* _add_to_cache begins, line 192: if len(audio_cache) >= CACHE_MAX_SIZE.
ServeOrSynthesize(t, out) ==
    /\ th[t].pc = "got"
    /\ IF Truthy(th[t].cached_result)
       THEN /\ out = None
            /\ Respond(t, 200, th[t].cached_result)
       ELSE /\ out \in SynthOutcomes(th[t].req)
            /\ IF SynthFailed(out)
               THEN th' = [th EXCEPT ![t] = [IdleThread EXCEPT !.req = th[t].req,
                                                !.key = th[t].key, !.invoked = TRUE,
                                                !.resp = [status |-> 500, body |-> None]]]
               ELSE th' = [th EXCEPT ![t].pc = IF CacheFull(audio_cache)
                                                THEN "add_min" ELSE "add_store",
                                     ![t].data = None, ![t].ts = 0,
                                     ![t].cached_result = None,
                                     ![t].invoked = TRUE, ![t].audio_data = out]
    /\ UNCHANGED <<audio_cache, now>>
    /\ PiperFrame

\* line 193: oldest_key = min(...); min() of an empty dict raises ValueError.
AddMin(t) ==
    /\ th[t].pc = "add_min"
    /\ IF Len(audio_cache) = 0
       THEN Respond(t, 500, None)
       ELSE th' = [th EXCEPT ![t].pc = "add_del", ![t].oldest_key = OldestKey(audio_cache)]
    /\ UNCHANGED <<audio_cache, now>>
    /\ PiperFrame

\* line 194: del audio_cache[oldest_key]
AddDel(t) ==
    /\ th[t].pc = "add_del"
    /\ IF InCache(audio_cache, th[t].oldest_key)
       THEN /\ audio_cache' = CacheDel(audio_cache, th[t].oldest_key)
            /\ th' = [th EXCEPT ![t].pc = "add_store"]
       ELSE /\ Respond(t, 500, None)
            /\ UNCHANGED audio_cache
    /\ UNCHANGED now
    /\ PiperFrame

\* line 196: audio_cache[key] = (data, time.time()), then line 113: _send_audio.
AddStore(t) ==
    /\ th[t].pc = "add_store"
    /\ audio_cache' = CacheSet(audio_cache, th[t].key, th[t].audio_data, now)
    /\ Respond(t, 200, th[t].audio_data)
    /\ UNCHANGED now
    /\ PiperFrame

\* The clock advances, up to limit.
Tick(limit) ==
    /\ now < limit
    /\ now' = now + 1
    /\ UNCHANGED <<audio_cache, th>>
    /\ PiperFrame

\* The steps of the handler thread t, for requests among reqs and outcomes of
\* the binary among outs.
PiperStep(t, reqs, outs) ==
    \/ \E req \in reqs : DoPost(t, req)
    \/ GetRead(t)
    \/ GetCheck(t)
    \/ GetDel(t)
    \/ \E out \in outs : ServeOrSynthesize(t, out)
    \/ AddMin(t)
    \/ AddDel(t)
    \/ AddStore(t)

(***************************************************************************)
(* Vision server: src/vision_server.py                                     *)
(***************************************************************************)

\* CACHE_SIZE = 1000 in the source (line 53); scaled like the Piper constants.
CACHE_SIZE == 2
\* The images differ in their first 1000 characters (head) or only after them (tail).
NumHeads == 3
NumTails == 2
NoImage == [head |-> 0, tail |-> 0]
Images == [head : 1..NumHeads, tail : 1..NumTails]

\* get_cache_key, lines 410-413: md5 of image_data[:1000], taken as one-to-one
\* on the first 1000 characters.
VisionCacheKey(img) == img.head

\* get_image_embedding(decode_image(image_data)): the embedding of this image.
ImageEmbedding(img) == img

VCacheKeys(cache) == DOMAIN cache
\* self.cache[cache_key] = VisionCacheEntry(...), lines 139-144
VCacheStore(cache, key, emb) ==
    [k \in (DOMAIN cache) \cup {key} |-> IF k = key THEN emb ELSE cache[k]]

\* embed_image, lines 111-156. decodes is whether decode_image and the model
\* succeed on the image; their exception gives status 500 (lines 154-156).
EmbedImage(img, use_cache, decodes) ==
    /\ IF img = NoImage
       THEN /\ vresp' = [status |-> 400, embedding |-> NoImage, cached |-> FALSE,
                         image |-> img]
            /\ UNCHANGED vcache
       ELSE IF use_cache /\ VisionCacheKey(img) \in VCacheKeys(vcache)
       THEN /\ vresp' = [status |-> 200, embedding |-> vcache[VisionCacheKey(img)],
                         cached |-> TRUE, image |-> img]
            /\ UNCHANGED vcache
       ELSE IF ~decodes
       THEN /\ vresp' = [status |-> 500, embedding |-> NoImage, cached |-> FALSE,
                         image |-> img]
            /\ UNCHANGED vcache
       ELSE /\ vresp' = [status |-> 200, embedding |-> ImageEmbedding(img),
                         cached |-> FALSE, image |-> img]
            /\ vcache' = IF use_cache
                         THEN VCacheStore(vcache, VisionCacheKey(img), ImageEmbedding(img))
                         ELSE vcache
    /\ VisionFrame

\* clear_cache, lines 277-281
VisionClearCache ==
    /\ vcache' = <<>>
    /\ vresp' = [status |-> 200, embedding |-> NoImage, cached |-> FALSE,
                 image |-> NoImage]
    /\ VisionFrame

(***************************************************************************)
(* Text embedding server: src/embedding_server.py                          *)
(***************************************************************************)

\* CACHE_SIZE_LIMIT = 10000 (line 46) and the batch limit 1000 (line 240) in
\* the source; scaled, with the pruned share CACHE_SIZE_LIMIT // 5 kept.
CACHE_SIZE_LIMIT == 5
MAX_BATCH == 2
\* The texts of the requests.
Texts == {1, 2, 3, 4, 5, 6}
\* The lists of texts a request sends: the empty list, the runs of
\* consecutive texts up to one longer than the batch limit, and the lists
\* that repeat one text.
TextLists ==
    {<<>>}
        \cup {[i \in 1..n |-> t + i - 1] :
                  <<t, n>> \in {p \in Texts \X (1..(MAX_BATCH + 1)) : p[1] + p[2] - 1 \in Texts}}
        \cup {[i \in 1..n |-> t] : <<t, n>> \in Texts \X (2..(MAX_BATCH + 1))}

\* get_cache_key, lines 49-51: 16 hex digits of md5, taken as one-to-one on
\* the texts of the model.
EmbedCacheKey(text) == <<"md5", text>>

\* model.encode (lines 149-155) for a deterministic model: one row per text,
\* in the order of the texts.
Embedding(text) == <<"emb", text>>
ModelEncode(texts) == [i \in 1..Len(texts) |-> Embedding(texts[i])]
\* A row of np.zeros((len(texts), 384)) that was never assigned (line 169).
ZeroRow == <<"zeros">>

ECacheKeys(cache) == {cache[i].key : i \in 1..Len(cache)}
\* embedding_cache[cache_key], line 131
ECacheGet(cache, key) == cache[CHOOSE i \in 1..Len(cache) : cache[i].key = key].emb
\* embedding_cache[cache_key] = ..., line 164: a present key keeps its place.
ECacheStore(cache, key, emb) ==
    IF key \in ECacheKeys(cache)
    THEN [i \in 1..Len(cache) |-> IF cache[i].key = key
                                  THEN [key |-> key, emb |-> emb] ELSE cache[i]]
    ELSE Append(cache, [key |-> key, emb |-> emb])

\* A variant of ManageCache that removes the latest-inserted keys.
PruneCount == CACHE_SIZE_LIMIT \div 5
ManageCachePrunesNewest(cache) ==
    IF Len(cache) > CACHE_SIZE_LIMIT
    THEN SubSeq(cache, 1, Len(cache) - PruneCount)
    ELSE cache

\* manage_cache, lines 54-61
ManageCache(cache) ==
    IF Len(cache) > CACHE_SIZE_LIMIT
    THEN SubSeq(cache, PruneCount + 1, Len(cache))
    ELSE cache

\* texts_to_encode of lines 124-143
TextsToEncode(texts, use_cache, cache) ==
    IF use_cache
    THEN SelectSeq(texts, LAMBDA t : EmbedCacheKey(t) \notin ECacheKeys(cache))
    ELSE texts

\* text_indices of lines 124-143 (positions counted from 1)
TextIndices(texts, use_cache, cache) ==
    IF use_cache
    THEN SelectSeq([i \in 1..Len(texts) |-> i],
                   LAMBDA i : EmbedCacheKey(texts[i]) \notin ECacheKeys(cache))
    ELSE [i \in 1..Len(texts) |-> i]

\* cached_results of lines 125-131: position -> the embedding held by the cache
CachedResults(texts, cache) ==
    [i \in {j \in 1..Len(texts) : EmbedCacheKey(texts[j]) \in ECacheKeys(cache)} |->
        ECacheGet(cache, EmbedCacheKey(texts[i]))]

\* lines 168-175: the rows returned when the model was invoked. With cached
\* results the rows start as zeros, take the new embeddings at text_indices
\* and then the cached ones; without, they are the model's rows as they are.
CombineRows(texts, use_cache, cached_results, text_indices, new_embeddings) ==
    IF use_cache /\ DOMAIN cached_results # {}
    THEN LET withNew == [idx \in 1..Len(texts) |->
                            IF \E i \in 1..Len(text_indices) : text_indices[i] = idx
                            THEN new_embeddings[CHOOSE i \in 1..Len(text_indices) :
                                                    text_indices[i] = idx]
                            ELSE ZeroRow]
         IN  [idx \in 1..Len(texts) |->
                 IF idx \in DOMAIN cached_results THEN cached_results[idx] ELSE withNew[idx]]
    ELSE new_embeddings

\* encode_texts (lines 103-179) on a list, for a model that returns: whether
\* it raises, the rows it returns and the texts it hands to model.encode.
\* Without the cache an empty list reaches line 177, which reads
\* cached_results, a name that only line 125 binds: UnboundLocalError.
EncodeTexts(texts, use_cache, cache) ==
    LET todo == TextsToEncode(texts, use_cache, cache)
        cached_results == CachedResults(texts, cache)
    IN  IF todo = <<>>
        THEN IF use_cache
             THEN [raised |-> FALSE, encoded |-> <<>>,
                   rows |-> [i \in 1..Len(texts) |-> cached_results[i]]]
             ELSE [raised |-> TRUE, encoded |-> <<>>, rows |-> <<>>]
        ELSE [raised |-> FALSE, encoded |-> todo,
              rows |-> CombineRows(texts, use_cache, cached_results,
                                   TextIndices(texts, use_cache, cache),
                                   ModelEncode(todo))]

\* The request /embed answers or answered last, when it is kept for the
\* properties of the returned rows.
NoEmbedRequest == [texts |-> <<>>, use_cache |-> TRUE, kept |-> FALSE]
\* batch is len(texts) of the request answered last; 0 when it was no /embed.
\* pruned is the number of entries manage_cache removed for it (logged at line
\* 61); todo are the texts handed to the model, while their embeddings are stored;
\* rows are the embeddings of the response, when the request is kept.
EncIdle(status, invoked, batch) ==
    [pc |-> "idle", pending |-> <<>>, status |-> status, invoked |-> invoked,
     batch |-> batch, todo |-> <<>>, rows |-> <<>>, request |-> NoEmbedRequest,
     pruned |-> 0]

\* A variant of TooManyTexts that refuses a list of exactly the batch limit.
TooManyTextsInclusive(texts) == Len(texts) >= MAX_BATCH

\* len(texts) > 1000, line 240
TooManyTexts(texts) == Len(texts) > MAX_BATCH

\* embed (lines 224-268) with a list of texts, into encode_texts up to the
\* call of the model (lines 116-158). encodes is whether model.encode returns;
\* its exception gives status 500 (lines 264-268), and so does the empty list
\* without the cache: line 177 reads cached_results, which line 125 never bound.
\* kept is whether enc keeps the request next to its answer.
Embed(texts, use_cache, encodes, kept) ==
    /\ enc.pc = "idle"
    /\ LET request == IF kept THEN [texts |-> texts, use_cache |-> use_cache, kept |-> TRUE]
                      ELSE NoEmbedRequest
           Answer(status, invoked, rows) ==
               IF kept
               THEN [EncIdle(status, invoked, Len(texts)) EXCEPT !.rows = rows,
                                                                 !.request = request]
               ELSE EncIdle(status, invoked, Len(texts))
       IN  IF TooManyTexts(texts)
           THEN enc' = Answer(400, FALSE, <<>>)
           ELSE LET r == EncodeTexts(texts, use_cache, embedding_cache)
                IN  IF r.encoded = <<>>
                    THEN enc' = Answer(IF r.raised THEN 500 ELSE 200, FALSE, r.rows)
                    ELSE IF ~encodes
                    THEN enc' = Answer(500, TRUE, <<>>)
                    ELSE IF ~use_cache
                    THEN enc' = Answer(200, TRUE, r.rows)
                    ELSE enc' = [pc |-> "caching", pending |-> r.encoded, status |-> 0,
                                 invoked |-> TRUE, batch |-> Len(texts),
                                 todo |-> r.encoded,
                                 rows |-> IF kept THEN r.rows ELSE <<>>,
                                 request |-> request, pruned |-> 0]
    /\ UNCHANGED embedding_cache
    /\ EmbedFrame

\* One round of the loop of lines 162-164: one new embedding is stored.
StoreEmbedding ==
    /\ enc.pc = "caching"
    /\ enc.pending # <<>>
    /\ embedding_cache' = ECacheStore(embedding_cache, EmbedCacheKey(Head(enc.pending)),
                                      Embedding(Head(enc.pending)))
    /\ enc' = [enc EXCEPT !.pending = Tail(enc.pending)]
    /\ EmbedFrame

\* After the loop: manage_cache() (line 165), the rows of lines 168-175, and
\* the response.
FinishEncode ==
    /\ enc.pc = "caching"
    /\ enc.pending = <<>>
    /\ embedding_cache' = ManageCache(embedding_cache)
    /\ LET pruned == Len(embedding_cache) - Len(ManageCache(embedding_cache))
       IN  enc' = IF enc.request.kept
                  THEN [EncIdle(200, TRUE, enc.batch) EXCEPT !.rows = enc.rows,
                                                             !.request = enc.request,
                                                             !.pruned = pruned]
                  ELSE [EncIdle(200, TRUE, enc.batch) EXCEPT !.pruned = pruned]
    /\ EmbedFrame

\* clear_cache, lines 336-349
EmbedClearCache ==
    /\ enc.pc = "idle"
    /\ embedding_cache' = <<>>
    /\ enc' = EncIdle(200, FALSE, 0)
    /\ EmbedFrame

EmbedInit ==
    /\ embedding_cache = <<>>
    /\ enc = EncIdle(0, FALSE, 0)

\* The steps of the server for requests with the lists of texts among lists.
EmbedStep(lists, kept) ==
    \/ \E texts \in lists, use_cache \in BOOLEAN, encodes \in BOOLEAN :
           Embed(texts, use_cache, encodes, kept)
    \/ StoreEmbedding
    \/ FinishEncode
    \/ EmbedClearCache

EmbedNext == EmbedStep(TextLists, FALSE)

(***************************************************************************)
(* GPU monitor: src/gpu_monitor.py                                         *)
(***************************************************************************)

\* deque(maxlen=300) in the source (line 88); scaled.
HISTORY_MAXLEN == 2
\* The monitor loop takes at most MaxSamples snapshots.
MaxSamples == 4
\* The websockets that connect, each once.
Clients == {"w1", "w2", "w3"}
NoClient == "nobody"

\* The periodic payload and the one sent on connect carry the last 60
\* snapshots of the history (lines 338, 373); scaled.
HISTORY_TAIL == 1
LastSnapshots(h) == SubSeq(h, Max(1, Len(h) - HISTORY_TAIL + 1), Len(h))

\* The snapshots of monitor_loop are numbered from 1 as they are taken. The
\* snapshot handle_client takes for its immediate update (line 366) is
\* another GpuStats object with its own timestamp, appended to no history.
ConnectSnapshot == 0

\* The frames: the gpu_stats payload of lines 331-340 and 367-377 with its
\* current snapshot and its history list, the history answer of lines
\* 387-391 and the ping of line 395.
NoFrame == [type |-> "none", data |-> <<>>]
GpuStatsFrame(stats, h) ==
    [type |-> "gpu_stats", current |-> stats, data |-> LastSnapshots(h)]
\* A variant of HistoryFrame that carries the tail of the periodic payload.
HistoryFrameTail(h) == [type |-> "history", data |-> LastSnapshots(h)]
HistoryFrame(h) == [type |-> "history", data |-> h]
PingFrame == [type |-> "ping", data |-> <<>>]
\* hmsg records the frames sent to the websockets under observation.
Observe(c, observed, frame) == IF c \in observed THEN frame ELSE NoFrame

\* A variant of DequeAppend that drops the newest element of a full deque.
DequeAppendDropNewest(h, x) ==
    IF Len(h) >= HISTORY_MAXLEN THEN Append(SubSeq(h, 1, Len(h) - 1), x) ELSE Append(h, x)

\* deque.append on a deque with maxlen=300 (line 88, line 322): a full deque
\* drops its oldest element.
DequeAppend(h, x) ==
    IF Len(h) >= HISTORY_MAXLEN THEN Append(Tail(h), x) ELSE Append(h, x)

\* monitor_loop between iterations: at the while test, after sleeping for
\* slept seconds (0 before the first iteration). message is the frame of the
\* broadcast in progress (lines 331-340).
MonAt(pc, stats, slept) ==
    [pc |-> pc, stats |-> stats, slept |-> slept, cur |-> NoClient,
     iterUsed |-> 0, iterLeft |-> {}, disconnected |-> {}, sent |-> {}, start |-> {},
     message |-> NoFrame]

\* The for loop of lines 344-348 asks the set iterator for its next element.
\* The iterator raises RuntimeError ("Set changed size during iteration")
\* when the size of the set is not the one it started with; the loop's
\* exception reaches line 355 and the loop sleeps 5 s (line 357). An
\* exhausted iterator ends the loop: line 351 removes the marked clients and
\* line 353 sleeps 1 s. Otherwise the send to the next client begins.
IterRaises(m, cl) == Cardinality(cl) # m.iterUsed
IterExhausted(m, cl) == ~IterRaises(m, cl) /\ m.iterLeft = {}
\* c can be the client the loop goes on with (NoClient: the loop is over).
IterPick(m, cl, c) ==
    IF IterRaises(m, cl) \/ IterExhausted(m, cl) THEN c = NoClient ELSE c \in m.iterLeft

MonAfterNext(m, cl, c) ==
    IF IterRaises(m, cl)
    THEN [MonAt("sleeping", m.stats, 5) EXCEPT !.sent = m.sent, !.start = m.start]
    ELSE IF IterExhausted(m, cl)
    THEN [MonAt("sleeping", m.stats, 1) EXCEPT !.sent = m.sent, !.start = m.start]
    ELSE [m EXCEPT !.pc = "sending", !.cur = c, !.iterLeft = m.iterLeft \ {c}]

ClientsAfterNext(m, cl) ==
    IF IterExhausted(m, cl) THEN cl \ m.disconnected ELSE cl

\* A variant of LoopExits in which the loop sleeps and tests the flag again.
LoopSleepsOn(m) == MonAt("sleeping", m.stats, 1)

\* The while test of line 317 finds the flag clear: monitor_loop returns.
LoopExits(m) == MonAt("exited", m.stats, 0)

\* A variant of AfterFailedSample in which the loop ends.
AfterFailedSampleExit == MonAt("exited", "failed", 0)

\* The iteration whose get_gpu_stats gave None (line 320: "if stats" is
\* false): nothing is appended or sent, and line 353 sleeps 1 s.
AfterFailedSample == MonAt("sleeping", "failed", 1)

\* start(), lines 402-411: the flag is set and the loop's task is created.
Start ==
    /\ mon.pc = "created"
    /\ running' = TRUE
    /\ mon' = MonAt("sleeping", "none", 0)
    /\ UNCHANGED <<history, clients, sampleSeq, conn, hpc, hmsg>>
    /\ GpuFrame

\* stop(), line 432
Stop ==
    /\ running
    /\ running' = FALSE
    /\ UNCHANGED <<history, clients, sampleSeq, mon, conn, hpc, hmsg>>
    /\ GpuFrame

\* One pass of the while loop from its test (line 317) to its first await:
\* the snapshot (get_gpu_stats gives None when NVML raises, lines 183-185),
\* the append under the lock (lines 321-322), the message, and the start of
\* the broadcast (lines 342-346) or the sleep of line 353.
MonitorIterate(sampled, c) ==
    /\ mon.pc = "sleeping"
    /\ IF ~running
       THEN /\ sampled = FALSE /\ c = NoClient
            /\ mon' = LoopExits(mon)
            /\ UNCHANGED <<history, clients, sampleSeq>>
       ELSE IF ~sampled
       THEN /\ c = NoClient
            /\ mon' = AfterFailedSample
            /\ UNCHANGED <<history, clients, sampleSeq>>
       ELSE /\ sampleSeq < MaxSamples
            /\ history' = DequeAppend(history, sampleSeq + 1)
            /\ sampleSeq' = sampleSeq + 1
            /\ IF clients = {}
               THEN /\ c = NoClient
                    /\ mon' = MonAt("sleeping", "ok", 1)
                    /\ UNCHANGED clients
               ELSE LET m == [MonAt("iterating", "ok", 0) EXCEPT
                                  !.iterUsed = Cardinality(clients),
                                  !.iterLeft = clients, !.start = clients,
                                  !.message = GpuStatsFrame(sampleSeq + 1,
                                                  DequeAppend(history, sampleSeq + 1))]
                    IN  /\ IterPick(m, clients, c)
                        /\ mon' = MonAfterNext(m, clients, c)
                        /\ clients' = ClientsAfterNext(m, clients)
    /\ UNCHANGED <<running, conn, hpc, hmsg>>
    /\ GpuFrame

\* A variant of MonitorSendReturn in which a send that raises ends the
\* broadcast: the except clause is the outer one.
MonitorSendReturnAborts(c) ==
    /\ mon.pc = "sending"
    /\ IF conn[mon.cur] = "open"
       THEN LET m == [mon EXCEPT !.sent = mon.sent \cup {mon.cur}]
            IN  /\ IterPick(m, clients, c)
                /\ mon' = MonAfterNext(m, clients, c)
                /\ clients' = ClientsAfterNext(m, clients)
       ELSE /\ c = NoClient
            /\ mon' = [MonAt("sleeping", mon.stats, 5) EXCEPT
                           !.sent = mon.sent, !.start = mon.start]
            /\ UNCHANGED clients
    /\ UNCHANGED <<running, history, sampleSeq, conn, hpc, hmsg>>
    /\ GpuFrame

\* await client.send(...) returns or raises (lines 345-348), and the loop goes
\* on to the iterator's next element. A send on a closed connection raises.
MonitorSendReturn(c) ==
    /\ mon.pc = "sending"
    /\ LET m == IF conn[mon.cur] = "open"
                THEN [mon EXCEPT !.sent = mon.sent \cup {mon.cur}]
                ELSE [mon EXCEPT !.disconnected = mon.disconnected \cup {mon.cur}]
       IN  /\ IterPick(m, clients, c)
           /\ mon' = MonAfterNext(m, clients, c)
           /\ clients' = ClientsAfterNext(m, clients)
    /\ UNCHANGED <<running, history, sampleSeq, conn, hpc, hmsg>>
    /\ GpuFrame

\* The set iterator of a broadcast in progress, when handle_client changes
\* the set: a removed client is no longer ahead of the iterator, an added one
\* lands ahead of it or behind it.
IterAfterDiscard(m, c) == [m EXCEPT !.iterLeft = m.iterLeft \ {c}]
IterAfterAdd(m, c, ahead) ==
    IF m.pc = "sending" /\ ahead THEN [m EXCEPT !.iterLeft = m.iterLeft \cup {c}] ELSE m

\* handle_client, lines 359-377: the client is added to the set, and the
\* immediate update is sent when get_gpu_stats gives a snapshot.
Connect(c, sampled, ahead, observed) ==
    /\ mon.pc # "created"
    /\ conn[c] = "new"
    /\ (mon.pc # "sending" => ahead = FALSE)
    /\ conn' = [conn EXCEPT ![c] = "open"]
    /\ clients' = clients \cup {c}
    /\ mon' = IterAfterAdd(mon, c, ahead)
    /\ hpc' = [hpc EXCEPT ![c] = IF sampled THEN "init_send" ELSE "recv"]
    /\ hmsg' = [hmsg EXCEPT ![c] = IF sampled THEN Observe(c, observed, GpuStatsFrame(ConnectSnapshot, history)) ELSE NoFrame]
    /\ UNCHANGED <<running, history, sampleSeq>>
    /\ GpuFrame

\* The handler's task ends: finally, self.clients.discard(websocket), line 400.
HandlerEnds(c) ==
    /\ clients' = clients \ {c}
    /\ mon' = IterAfterDiscard(mon, c)
    /\ hpc' = [hpc EXCEPT ![c] = "ended"]

\* An await websocket.send of the handler returns (lines 377, 391, 395), or
\* raises ConnectionClosed on a closed connection (line 397).
HandlerSendReturn(c) ==
    /\ hpc[c] \in {"init_send", "history_send", "ping_send"}
    /\ IF conn[c] = "open"
       THEN /\ hpc' = [hpc EXCEPT ![c] = "recv"]
            /\ UNCHANGED <<clients, mon>>
       ELSE HandlerEnds(c)
    /\ hmsg' = [hmsg EXCEPT ![c] = NoFrame]
    /\ UNCHANGED <<running, history, sampleSeq, conn>>
    /\ GpuFrame

\* A message arrives (lines 382-391): get_history is answered, another JSON
\* object is ignored, and text that json.loads or data.get rejects raises an
\* exception that only the finally clause handles; the library then closes
\* the connection.
InboundMessages == {"get_history", "other_object", "malformed"}
HandlerRecv(c, msg, observed) ==
    /\ hpc[c] = "recv"
    /\ conn[c] = "open"
    /\ IF msg = "get_history"
       THEN /\ hpc' = [hpc EXCEPT ![c] = "history_send"]
            /\ hmsg' = [hmsg EXCEPT ![c] = Observe(c, observed, HistoryFrame(history))]
            /\ UNCHANGED <<clients, mon, conn>>
       ELSE IF msg = "other_object"
       THEN UNCHANGED <<hpc, hmsg, clients, mon, conn>>
       ELSE /\ HandlerEnds(c)
            /\ conn' = [conn EXCEPT ![c] = "closed"]
            /\ UNCHANGED hmsg
    /\ UNCHANGED <<running, history, sampleSeq>>
    /\ GpuFrame

\* A variant of HandlerTimeout in which the idle websocket is sent the ping
\* and dropped from the subscriber set.
HandlerTimeoutUnsubscribes(c, observed) ==
    /\ hpc[c] = "recv"
    /\ conn[c] = "open"
    /\ hpc' = [hpc EXCEPT ![c] = "ping_send"]
    /\ hmsg' = [hmsg EXCEPT ![c] = Observe(c, observed, PingFrame)]
    /\ clients' = clients \ {c}
    /\ mon' = IterAfterDiscard(mon, c)
    /\ UNCHANGED <<running, history, sampleSeq, conn>>
    /\ GpuFrame

\* asyncio.TimeoutError after 30 s without a message: the ping (lines 393-395).
HandlerTimeout(c, observed) ==
    /\ hpc[c] = "recv"
    /\ conn[c] = "open"
    /\ hpc' = [hpc EXCEPT ![c] = "ping_send"]
    /\ hmsg' = [hmsg EXCEPT ![c] = Observe(c, observed, PingFrame)]
    /\ UNCHANGED <<running, history, clients, sampleSeq, mon, conn>>
    /\ GpuFrame

\* websocket.recv() raises ConnectionClosed (lines 397-400).
HandlerConnectionClosed(c) ==
    /\ hpc[c] = "recv"
    /\ conn[c] = "closed"
    /\ HandlerEnds(c)
    /\ UNCHANGED <<running, history, sampleSeq, conn, hmsg>>
    /\ GpuFrame

\* The client, or the network, closes the connection.
ConnectionDrops(c) ==
    /\ conn[c] = "open"
    /\ conn' = [conn EXCEPT ![c] = "closed"]
    /\ UNCHANGED <<running, history, clients, sampleSeq, mon, hpc, hmsg>>
    /\ GpuFrame

\* GpuMonitor.__init__, lines 85-91
GpuInit ==
    /\ running = FALSE
    /\ history = <<>>
    /\ clients = {}
    /\ sampleSeq = 0
    /\ mon = MonAt("created", "none", 0)
    /\ conn = [c \in Clients |-> "new"]
    /\ hpc = [c \in Clients |-> "none"]
    /\ hmsg = [c \in Clients |-> NoFrame]

\* The steps of the monitor loop and of the handlers of the websockets cs,
\* with the frames sent to the websockets of observed recorded.
GpuStep(cs, observed) ==
    \/ Start
    \/ Stop
    \/ \E sampled \in BOOLEAN, c \in cs \cup {NoClient} : MonitorIterate(sampled, c)
    \/ \E c \in cs \cup {NoClient} : MonitorSendReturn(c)
    \/ \E c \in cs, sampled \in BOOLEAN, ahead \in BOOLEAN : Connect(c, sampled, ahead, observed)
    \/ \E c \in cs : HandlerSendReturn(c)
    \/ \E c \in cs, msg \in InboundMessages : HandlerRecv(c, msg, observed)
    \/ \E c \in cs : HandlerTimeout(c, observed)
    \/ \E c \in cs : HandlerConnectionClosed(c)
    \/ \E c \in cs : ConnectionDrops(c)

GpuNext == GpuStep(Clients, {})

(***************************************************************************)
(* GPU monitor, the pure functions: get_recommendations and detect_models  *)
(***************************************************************************)

\* The thresholds of get_recommendations, lines 294-310.
VRAM_CRITICAL_PERCENT == 90
VRAM_HIGH_PERCENT == 75
TEMP_VERY_HIGH == 85
TEMP_ELEVATED == 80
IDLE_UTILIZATION == 10
LOADED_VRAM_MB == 4000

\* The snapshots get_recommendations is called with: the values on both
\* sides of every threshold. power_limit * 0.9 is 225 for the limit 250.
VramPercents == {75, 76, 90, 91}
Temperatures == {80, 81, 85, 86}
PowerDraws == {225, 226}
PowerLimits == {250}
Utilizations == {9, 10}
VramUsedMbs == {4000, 4001}
StatsInputs ==
    [vram_percent : VramPercents, temperature : Temperatures,
     power_draw : PowerDraws, power_limit : PowerLimits,
     gpu_utilization : Utilizations, vram_used : VramUsedMbs]
NoStats ==
    [vram_percent |-> 0, temperature |-> 0, power_draw |-> 0, power_limit |-> 0,
     gpu_utilization |-> 0, vram_used |-> 0]

\* stats.power_draw > stats.power_limit * 0.9, line 306, in tenths.
PowerNearLimit(stats) == stats.power_draw * 10 > stats.power_limit * 9

\* A variant of GetRecommendations that returns after its first warning.
GetRecommendationsFirstOnly(stats) ==
    IF stats.vram_percent > VRAM_CRITICAL_PERCENT THEN <<"vram_critical">>
    ELSE IF stats.vram_percent > VRAM_HIGH_PERCENT THEN <<"vram_high">>
    ELSE IF stats.temperature > TEMP_VERY_HIGH THEN <<"temp_very_high">>
    ELSE IF stats.temperature > TEMP_ELEVATED THEN <<"temp_elevated">>
    ELSE IF PowerNearLimit(stats) THEN <<"power_near_limit">>
    ELSE IF stats.gpu_utilization < IDLE_UTILIZATION /\ stats.vram_used > LOADED_VRAM_MB
    THEN <<"idle_but_loaded">>
    ELSE <<"normal">>

\* get_recommendations, lines 289-313: the list of messages, each named by
\* its kind.
GetRecommendations(stats) ==
    LET vram == IF stats.vram_percent > VRAM_CRITICAL_PERCENT THEN <<"vram_critical">>
                ELSE IF stats.vram_percent > VRAM_HIGH_PERCENT THEN <<"vram_high">>
                ELSE <<>>
        temp == IF stats.temperature > TEMP_VERY_HIGH THEN <<"temp_very_high">>
                ELSE IF stats.temperature > TEMP_ELEVATED THEN <<"temp_elevated">>
                ELSE <<>>
        power == IF PowerNearLimit(stats) THEN <<"power_near_limit">> ELSE <<>>
        idle == IF stats.gpu_utilization < IDLE_UTILIZATION /\ stats.vram_used > LOADED_VRAM_MB
                THEN <<"idle_but_loaded">> ELSE <<>>
        recommendations == vram \o temp \o power \o idle
    IN  IF recommendations # <<>> THEN recommendations ELSE <<"normal">>

\* A call of get_recommendations.
Recommend(stats) ==
    /\ rec' = [stats |-> stats, out |-> GetRecommendations(stats)]
    /\ UNCHANGED det
    /\ FnFrame

\* self.model_patterns, lines 94-99, in the order of the dict.
model_patterns ==
    << [type |-> "ollama",
        patterns |-> << <<"o", "l", "l", "a", "m", "a">>, <<"l", "l", "a", "m", "a">>, <<"m", "i", "s", "t", "r", "a", "l">>, <<"c", "o", "d", "e", "l", "l", "a", "m", "a">> >>],
       [type |-> "whisper",
        patterns |-> << <<"w", "h", "i", "s", "p", "e", "r">>, <<"s", "t", "t">> >>],
       [type |-> "embedding",
        patterns |-> << <<"e", "m", "b", "e", "d", "d", "i", "n", "g">>, <<"s", "e", "n", "t", "e", "n", "c", "e">> >>],
       [type |-> "python",
        patterns |-> << <<"p", "y", "t", "h", "o", "n", ".", "e", "x", "e">>, <<"p", "y", "t", "h", "o", "n", "3">> >>] >>

\* str.lower() on the letters of the names.
Uppers == <<"A", "B", "C", "D", "E", "F", "G", "H", "I", "J", "K", "L", "M",
            "N", "O", "P", "Q", "R", "S", "T", "U", "V", "W", "X", "Y", "Z">>
Lowers == <<"a", "b", "c", "d", "e", "f", "g", "h", "i", "j", "k", "l", "m",
            "n", "o", "p", "q", "r", "s", "t", "u", "v", "w", "x", "y", "z">>
LowerChar(ch) ==
    IF \E i \in 1..Len(Uppers) : Uppers[i] = ch
    THEN Lowers[CHOOSE i \in 1..Len(Uppers) : Uppers[i] = ch]
    ELSE ch
Lower(name) == [i \in 1..Len(name) |-> LowerChar(name[i])]

\* pattern in name_lower: the substring test of line 272.
Contains(pattern, name) ==
    \E i \in 0..(Len(name) - Len(pattern)) : SubSeq(name, i + 1, i + Len(pattern)) = pattern

\* any(pattern in name_lower for pattern in patterns), line 272
Matches(k, name) ==
    \E j \in 1..Len(model_patterns[k].patterns) :
        Contains(model_patterns[k].patterns[j], Lower(name))
MatchingTypes(name) == {k \in 1..Len(model_patterns) : Matches(k, name)}

\* The bucket a matched model type is appended to, lines 273-280.
BucketOfType(model_type) ==
    IF model_type = "ollama" THEN "llm"
    ELSE IF model_type = "whisper" THEN "whisper"
    ELSE IF model_type = "embedding" THEN "embedding"
    ELSE "other"

\* A variant of BucketOfProcess in which the last matching type wins.
BucketOfProcessLastMatch(name) ==
    IF MatchingTypes(name) = {} THEN "other"
    ELSE BucketOfType(model_patterns[
             CHOOSE k \in MatchingTypes(name) : \A m \in MatchingTypes(name) : m <= k].type)

\* The inner loop of lines 271-285: it breaks at the first type that matches,
\* and a process no type matches goes to other.
BucketOfProcess(name) ==
    IF MatchingTypes(name) = {} THEN "other"
    ELSE BucketOfType(model_patterns[
             CHOOSE k \in MatchingTypes(name) : \A m \in MatchingTypes(name) : k <= m].type)

\* detect_models, lines 258-287: the loop over the processes, from the i-th.
RECURSIVE DetectFrom(_, _, _)
DetectFrom(processes, i, detected) ==
    IF i > Len(processes) THEN detected
    ELSE LET proc == processes[i]
             b == BucketOfProcess(proc.name)
         IN  DetectFrom(processes, i + 1, [detected EXCEPT ![b] = Append(@, proc)])
EmptyBuckets == [llm |-> <<>>, whisper |-> <<>>, embedding |-> <<>>, other |-> <<>>]
DetectModels(processes) == DetectFrom(processes, 1, EmptyBuckets)

\* The names of the processes, and the lists get_gpu_stats gives: the i-th
\* process has pid i.
MaxProcs == 2
ProcessNames ==
    { <<"O", "L", "L", "A", "M", "A", ".", "E", "X", "E">>,
      <<"M", "i", "s", "t", "r", "a", "l">>,
      <<"l", "l", "a", "m", "a", "-", "s", "t", "t">>,
      <<"W", "h", "i", "s", "p", "e", "r">>,
      <<"s", "t", "t", "-", "e", "m", "b", "e", "d", "d", "i", "n", "g">>,
      <<"s", "e", "n", "t", "e", "n", "c", "e">>,
      <<"p", "y", "t", "h", "o", "n", "3">>,
      <<"p", "y", "t", "h", "o", "n", "3", "-", "s", "t", "t">>,
      <<"c", "h", "r", "o", "m", "e">>,
      <<>> }
ProcessLists ==
    UNION {[1..n -> ProcessNames] : n \in 0..MaxProcs}
WithPids(names) == [i \in 1..Len(names) |-> [pid |-> i, name |-> names[i]]]

\* The call of detect_models.
Detect(names) ==
    /\ ~det.called
    /\ det' = [called |-> TRUE, processes |-> WithPids(names),
               detected |-> DetectModels(WithPids(names))]
    /\ UNCHANGED rec
    /\ FnFrame

FnInit ==
    /\ rec = [stats |-> NoStats, out |-> <<>>]
    /\ det = [called |-> FALSE, processes |-> <<>>, detected |-> EmptyBuckets]

PiperInit ==
    /\ audio_cache = <<>>
    /\ now = 0
    /\ th = [t \in PiperThreads |-> IdleThread]

VisionInit ==
    /\ vcache = <<>>
    /\ vresp = [status |-> 0, embedding |-> NoImage, cached |-> FALSE, image |-> NoImage]

Init == PiperInit /\ VisionInit /\ EmbedInit /\ GpuInit /\ FnInit

AllOutcomes == {None, Raised, EmptyAudio} \cup {WavOf(r) : r \in PiperRequests}

\* One request at a time: a single handler thread.
PiperNext ==
    \/ PiperStep(1, PiperRequests \cup MalformedRequests, AllOutcomes)
    \/ Tick(MaxTime)
SpecPiper == Init /\ [][PiperNext]_vars

\* The threaded server: the handlers' steps interleave. The requests carry a
\* text, and the binary fails or writes the WAV bytes.
ThreadRequests == {r \in PiperRequests : r.text # <<>>}
ThreadOutcomes == {None, Raised} \cup {WavOf(r) : r \in ThreadRequests}
PiperThreadsNext ==
    \/ \E t \in PiperThreads : PiperStep(t, ThreadRequests, ThreadOutcomes)
    \/ Tick(ThreadsMaxTime)
SpecPiperThreads == Init /\ [][PiperThreadsNext]_vars

\* One request at a time, with texts that hold the character "_" or not and
\* with a speaker_id sent as the default number or as a JSON string.
KeyTexts == {<<"a">>, <<"a", "_", "1">>}
KeySpeakers == {DefaultSpeaker, <<"1", "_", "0">>}
KeyRequests ==
    [body : {"json_object"}, text : KeyTexts, speaker_id : KeySpeakers,
     length_scale : {DefaultLengthScale}, noise_scale : {DefaultNoiseScale},
     noise_w : {DefaultNoiseW}]
KeyOutcomes == {None} \cup {WavOf(r) : r \in KeyRequests}
PiperKeysNext ==
    \/ PiperStep(1, KeyRequests, KeyOutcomes)
    \/ Tick(MaxTime)
SpecPiperKeys == Init /\ [][PiperKeysNext]_vars

VisionNext ==
    \/ \E img \in Images \cup {NoImage}, use_cache \in BOOLEAN, decodes \in BOOLEAN :
           EmbedImage(img, use_cache, decodes)
    \/ VisionClearCache
SpecVision == Init /\ [][VisionNext]_vars

SpecEmbed == Init /\ [][EmbedNext]_vars

\* The requests to /embed with every list over three texts, in any order and
\* with repeats, up to the batch limit; enc keeps each request with its rows.
RowTexts == {1, 2, 3}
RowTextLists == UNION {[1..n -> RowTexts] : n \in 0..MAX_BATCH}
EmbedRowsNext == EmbedStep(RowTextLists, TRUE)
SpecEmbedRows == Init /\ [][EmbedRowsNext]_vars

SpecGpu == Init /\ [][GpuNext]_vars

\* Two websockets connect. The event loop runs the monitor task whenever it
\* is ready: its sleeps end and its sends return or raise.
StopClients == {"w1", "w2"}
GpuStopNext == GpuStep(StopClients, {})
SpecGpuStop ==
    /\ Init
    /\ [][GpuStopNext]_vars
    /\ WF_vars(\E sampled \in BOOLEAN, c \in StopClients \cup {NoClient} : MonitorIterate(sampled, c))
    /\ WF_vars(\E c \in StopClients \cup {NoClient} : MonitorSendReturn(c))

\* Two websockets connect, and the frames their handlers send are recorded.
GpuFramesNext == GpuStep(StopClients, StopClients)
SpecGpuFrames == Init /\ [][GpuFramesNext]_vars

\* get_recommendations on every snapshot of StatsInputs.
RecommendNext == \E stats \in StatsInputs : Recommend(stats)
SpecRecommend == Init /\ [][RecommendNext]_vars

\* detect_models on every list of ProcessLists.
DetectNext == \E names \in ProcessLists : Detect(names)
SpecDetect == Init /\ [][DetectNext]_vars

(***************************************************************************)
(* The claims                                                              *)
(***************************************************************************)

\* C1: with requests handled one at a time, the audio cache holds at most
\* CACHE_MAX_SIZE entries after every _add_to_cache (and in every other state).
C1_AudioCacheBounded == Len(audio_cache) <= CACHE_MAX_SIZE

\* An _add_to_cache has just evicted the oldest entry of a full cache and
\* stored the new one.
C1_Witness ==
    /\ th[1].pc = "idle"
    /\ th[1].resp.status = 200
    /\ th[1].invoked
    /\ th[1].oldest_key # None
    /\ ~InCache(audio_cache, th[1].oldest_key)
    /\ InCache(audio_cache, th[1].key)
    /\ Len(audio_cache) = CACHE_MAX_SIZE

\* C2: the vision cache never holds more than CACHE_SIZE entries.
C2_VisionCacheBounded == Cardinality(VCacheKeys(vcache)) <= CACHE_SIZE

\* C3: the text embedding cache never holds more than CACHE_SIZE_LIMIT entries,
\* the states between the stores of one batch included.
C3_EmbeddingCacheBounded == Len(embedding_cache) <= CACHE_SIZE_LIMIT

\* C4: a _get_from_cache that finds its key returns the entry's data, and leaves
\* the cache alone, when the time of the lookup is before the entry's timestamp
\* plus CACHE_TTL_SECONDS; at or after it, it returns None with the entry removed.
C4_LookupReturns ==
    /\ th[1].pc \in {"get_check", "get_del"}
    /\ th'[1].pc \notin {"get_check", "get_del"}
C4_TtlBoundary ==
    [][C4_LookupReturns =>
         /\ InCache(audio_cache, th[1].key)
         /\ th'[1].pc = "got"
         /\ LET e == CacheGet(audio_cache, th[1].key)
            IN  IF now < e.ts + CACHE_TTL_SECONDS
                THEN /\ th'[1].cached_result = e.data
                     /\ audio_cache' = audio_cache
                ELSE /\ th'[1].cached_result = None
                     /\ ~InCache(audio_cache', th[1].key)
                     /\ Len(audio_cache') = Len(audio_cache) - 1]_vars

\* A lookup at the very time the entry expires has returned None, the entry
\* being gone.
C4_Witness ==
    /\ th[1].pc = "got"
    /\ th[1].cached_result = None
    /\ th[1].data # None
    /\ now = th[1].ts + CACHE_TTL_SECONDS
    /\ ~InCache(audio_cache, th[1].key)

\* C5: a request whose key is cached and unexpired (the lookup has returned the
\* entry's data) is answered 200 with that data, without a run of the binary.
C5_RepeatServedFromCache ==
    [][(th[1].pc = "got" /\ th[1].cached_result # None /\ th'[1] # th[1]) =>
         /\ th'[1].pc = "idle"
         /\ th'[1].resp = [status |-> 200, body |-> th[1].cached_result]
         /\ ~th'[1].invoked]_vars

\* C6: once all request threads have finished, the audio cache holds each key
\* once and at most CACHE_MAX_SIZE entries.
C6_ConcurrentCacheSound ==
    (\A t \in PiperThreads : th[t].pc = "idle") =>
        /\ Cardinality(CacheKeys(audio_cache)) = Len(audio_cache)
        /\ Len(audio_cache) <= CACHE_MAX_SIZE

\* C7: the history holds at most HISTORY_MAXLEN snapshots, oldest first, and
\* an append to a full history discards exactly the oldest one.
C7_HistoryInOrder ==
    /\ Len(history) <= HISTORY_MAXLEN
    /\ \A i, j \in 1..Len(history) : i < j => history[i] < history[j]
C7_HistoryAppend ==
    history' # history =>
        /\ sampleSeq' = sampleSeq + 1
        /\ IF Len(history) = HISTORY_MAXLEN
           THEN history' = Append(Tail(history), sampleSeq')
           ELSE history' = Append(history, sampleSeq')
C7_History == []C7_HistoryInOrder /\ [][C7_HistoryAppend]_vars

\* The history is full and its oldest snapshots have been discarded.
C7_Witness ==
    /\ Len(history) = HISTORY_MAXLEN
    /\ history[1] > 1
    /\ history[Len(history)] = sampleSeq

\* C8: in the monitor loop, the step in which a send fails marks that client
\* and, the set iterator permitting, goes on to the next client with the
\* subscriber set as it was; the loop removes clients only once its iterator
\* is exhausted, and then exactly the marked ones.
C8_SendReturns ==
    /\ mon.pc = "sending"
    /\ (mon'.pc # "sending" \/ mon'.cur # mon.cur)
C8_SendFails == C8_SendReturns /\ conn[mon.cur] # "open"
C9_BroadcastReachesAll ==
    (mon.pc = "sleeping" /\ mon.stats = "ok") =>
        \A c \in mon.start : (c \in clients /\ conn[c] = "open") => c \in mon.sent

\* C10: an iteration whose sample fails appends nothing, sends nothing and
\* leaves the loop at its next iteration; the loop has exited only when the
\* running flag is clear.
C10_FailedIteration ==
    /\ mon.pc = "sleeping"
    /\ running
    /\ mon' # mon
    /\ mon'.stats = "failed"
C10_LoopSurvivesFailure ==
    /\ [](mon.pc = "exited" => ~running)
    /\ [][C10_FailedIteration =>
            /\ history' = history
            /\ sampleSeq' = sampleSeq
            /\ clients' = clients
            /\ mon'.pc = "sleeping"
            /\ mon'.sent = {}
            /\ running']_vars

\* The loop is at its next iteration after a failed sample, with subscribers
\* connected and the flag set.
C10_Witness ==
    /\ mon.pc = "sleeping"
    /\ mon.stats = "failed"
    /\ running
    /\ clients # {}

\* C11: after an iteration whose sample failed, the loop sleeps the longer
\* interval of 5 seconds before it samples again.
C11_BackoffAfterFailedSample ==
    (mon.pc = "sleeping" /\ mon.stats = "failed") => mon.slept = 5

\* C12: once stop() has cleared the flag, the loop takes no new snapshot and
\* starts no broadcast, the step that tests the flag ends the loop for good,
\* and the loop does exit: the broadcast in flight is completed, the sleep in
\* flight ends, and the next test of the flag is the last.
C12_Stopped == ~running /\ mon.pc # "created"
C12_NothingNewAfterStop ==
    C12_Stopped =>
        /\ ~running'
        /\ history' = history
        /\ sampleSeq' = sampleSeq
        /\ (mon.pc # "sending" => mon'.pc # "sending")
        /\ ((mon.pc = "sleeping" /\ mon' # mon) => mon'.pc = "exited")
        /\ (mon.pc = "exited" => mon' = mon)
C12_StopEndsLoop ==
    /\ [][C12_NothingNewAfterStop]_vars
    /\ (C12_Stopped ~> mon.pc = "exited")

\* The loop has exited after stop(), with snapshots taken and subscribers connected.
C12_Witness ==
    /\ mon.pc = "exited"
    /\ ~running
    /\ mon.stats = "ok"
    /\ clients # {}
    /\ Len(history) = HISTORY_MAXLEN

\* C17: get_recommendations returns, for each of the four checks on its own,
\* the warning of that check exactly when its condition holds (the stronger
\* of the two memory warnings and of the two temperature warnings when both
\* thresholds are passed), each once; the operating-normally entry is
\* returned exactly when no condition holds, and then alone; the result is
\* never empty.
C17_Has(kind) == \E i \in 1..Len(rec.out) : rec.out[i] = kind
C17_AnyWarning ==
    \/ rec.stats.vram_percent > VRAM_HIGH_PERCENT
    \/ rec.stats.temperature > TEMP_ELEVATED
    \/ rec.stats.power_draw * 10 > rec.stats.power_limit * 9
    \/ (rec.stats.gpu_utilization < IDLE_UTILIZATION /\ rec.stats.vram_used > LOADED_VRAM_MB)
C17_AllWarningsReturned ==
    rec.stats # NoStats =>
        /\ C17_Has("vram_critical") <=> rec.stats.vram_percent > VRAM_CRITICAL_PERCENT
        /\ C17_Has("vram_high") <=>
               (rec.stats.vram_percent > VRAM_HIGH_PERCENT
                    /\ rec.stats.vram_percent <= VRAM_CRITICAL_PERCENT)
        /\ C17_Has("temp_very_high") <=> rec.stats.temperature > TEMP_VERY_HIGH
        /\ C17_Has("temp_elevated") <=>
               (rec.stats.temperature > TEMP_ELEVATED /\ rec.stats.temperature <= TEMP_VERY_HIGH)
        /\ C17_Has("power_near_limit") <=>
               rec.stats.power_draw * 10 > rec.stats.power_limit * 9
        /\ C17_Has("idle_but_loaded") <=>
               (rec.stats.gpu_utilization < IDLE_UTILIZATION
                    /\ rec.stats.vram_used > LOADED_VRAM_MB)
        /\ C17_Has("normal") <=> ~C17_AnyWarning
        /\ C17_Has("normal") => rec.out = <<"normal">>
        /\ rec.out # <<>>
        /\ Cardinality(Range(rec.out)) = Len(rec.out)

\* A snapshot that passes a memory, a temperature, the power and the idle
\* threshold has been given its four warnings.
C17_Witness ==
    /\ rec.stats # NoStats
    /\ Len(rec.out) = 4
    /\ C17_Has("vram_high")
    /\ C17_Has("temp_very_high")

\* C18: detect_models puts every process of its input into exactly one
\* bucket, once; the bucket is that of the first type of model_patterns one
\* of whose keywords is in the lower-cased name, and other when no type
\* matches.
C18_Count(bucket, proc) ==
    Cardinality({i \in 1..Len(det.detected[bucket]) : det.detected[bucket][i] = proc})
C18_Buckets == {"llm", "whisper", "embedding", "other"}
C18_Expected(proc) ==
    LET name == Lower(proc.name)
        first == CHOOSE k \in 1..Len(model_patterns) :
                     /\ \E pat \in Range(model_patterns[k].patterns) : Contains(pat, name)
                     /\ \A m \in 1..(k - 1) :
                            \A pat \in Range(model_patterns[m].patterns) : ~Contains(pat, name)
    IN  IF \A k \in 1..Len(model_patterns) :
               \A pat \in Range(model_patterns[k].patterns) : ~Contains(pat, name)
        THEN "other"
        ELSE IF model_patterns[first].type = "ollama" THEN "llm"
        ELSE IF model_patterns[first].type = "python" THEN "other"
        ELSE model_patterns[first].type
C18_EachProcessInOneBucket ==
    det.called =>
        /\ DOMAIN det.detected = C18_Buckets
        /\ \A i \in 1..Len(det.processes) :
               \A b \in C18_Buckets :
                   C18_Count(b, det.processes[i]) =
                       IF b = C18_Expected(det.processes[i]) THEN 1 ELSE 0
        /\ Len(det.detected.llm) + Len(det.detected.whisper)
               + Len(det.detected.embedding) + Len(det.detected.other) = Len(det.processes)

\* A list of two processes has been classified: one whose name holds keywords
\* of two types, one that no type matches.
C18_Witness ==
    /\ det.called
    /\ Len(det.processes) = MaxProcs
    /\ \E i \in 1..Len(det.processes) :
           Cardinality(MatchingTypes(det.processes[i].name)) > 1
    /\ \E i \in 1..Len(det.processes) : MatchingTypes(det.processes[i].name) = {}

\* C13: the step in which a websocket connects hands its handler's gpu_stats
\* payload, with the tail of the history, to that websocket's send, and no
\* broadcast send to a websocket starts before that step.
C13_Connects(c) == conn[c] = "new" /\ conn'[c] = "open"
C14_HandlerEndedNotSubscribed == \A c \in Clients : hpc[c] = "ended" => c \notin clients
C14_BroadcastEnds == mon.pc = "sending" /\ mon'.pc = "sleeping"
C14_FailedInBroadcast ==
    mon.disconnected \cup (IF conn[mon.cur] = "open" THEN {} ELSE {mon.cur})
C14_OnlyLiveSubscribers ==
    /\ []C14_HandlerEndedNotSubscribed
    /\ [][C14_BroadcastEnds => \A c \in C14_FailedInBroadcast : c \notin clients']_vars

\* C15: the idle timeout of a connected websocket makes its handler send a
\* ping frame with the websocket still in the subscriber set and its
\* connection open, and when that send returns the handler waits for messages
\* again, the websocket still subscribed; so no number of timeouts removes it.
C15_TimesOut(c) == hpc[c] = "recv" /\ hpc'[c] = "ping_send"
C15_PingReturns(c) == hpc[c] = "ping_send" /\ conn[c] = "open" /\ hpc'[c] # "ping_send"
C15_KeepAlive ==
    [][\A c \in StopClients :
          /\ C15_TimesOut(c) =>
                 /\ hmsg'[c] = [type |-> "ping", data |-> <<>>]
                 /\ c \in clients
                 /\ clients' = clients
                 /\ conn'[c] = "open"
          /\ C15_PingReturns(c) =>
                 /\ hpc'[c] = "recv"
                 /\ c \in clients'
                 /\ conn'[c] = "open"]_vars

\* A handler is sending the ping to its websocket, which is subscribed and
\* connected, while the history is full.
C15_Witness ==
    \E c \in StopClients :
        /\ hpc[c] = "ping_send"
        /\ hmsg[c].type = "ping"
        /\ c \in clients
        /\ conn[c] = "open"
        /\ Len(history) = HISTORY_MAXLEN

\* C16: the step in which a handler takes a get_history command hands to the
\* websocket's send one frame of type history whose data is the whole history
\* as it is then, oldest first, and leaves the history and the subscriber set
\* unchanged.
C16_TakesGetHistory(c) == hpc[c] = "recv" /\ hpc'[c] = "history_send"
C16_FullHistory ==
    [][\A c \in StopClients :
          C16_TakesGetHistory(c) =>
              /\ hmsg'[c] = [type |-> "history", data |-> history]
              /\ history' = history
              /\ clients' = clients]_vars

\* A handler is answering get_history with a full history, which is longer
\* than the tail the periodic payload carries.
C16_Witness ==
    \E c \in StopClients :
        /\ hpc[c] = "history_send"
        /\ hmsg[c].type = "history"
        /\ Len(hmsg[c].data) = HISTORY_MAXLEN
        /\ Len(hmsg[c].data) > HISTORY_TAIL
        /\ hmsg[c].data[1] > 1

\* C19: a POST /embed with a list of more than the batch limit of texts is
\* answered 400 without a call of the model, and the step that answers it
\* leaves the embedding cache as it was; a list of exactly the limit is not
\* refused.
C19_Refused == enc.batch > MAX_BATCH => (enc.pc = "idle" /\ enc.status = 400 /\ ~enc.invoked)
C19_Accepted == enc.batch = MAX_BATCH => enc.status # 400
C19_OversizedBatchRefused ==
    /\ [](C19_Refused /\ C19_Accepted)
    /\ [][enc'.batch > MAX_BATCH => embedding_cache' = embedding_cache]_vars

\* An oversized list has been refused while the cache holds embeddings.
C19_Witness ==
    /\ enc.batch = MAX_BATCH + 1
    /\ enc.status = 400
    /\ embedding_cache # <<>>

\* C20: a /tts request whose body is not JSON, or whose text is empty, is
\* answered with a 4xx status and without a run of the binary, and the step
\* that answers it leaves the audio cache as it was.
C20_BadInput(req) == req.body = "not_json" \/ (req.body = "json_object" /\ req.text = <<>>)
C20_BadInputRejected ==
    /\ []((th[1].pc = "idle" /\ C20_BadInput(th[1].req)) =>
              (th[1].resp.status \in 400..499 /\ ~th[1].invoked))
    /\ [][(th[1].pc = "idle" /\ th'[1].pc = "idle" /\ C20_BadInput(th'[1].req)) =>
              audio_cache' = audio_cache]_vars


\* ---- C21 ----------------------------------------------------------------
\* The handler leaves the synthesis (it stood after the lookup with nothing
\* truthy to serve) and ends at once: the Piper binary failed.
C21_SynthesisFails ==
    /\ th[1].pc = "got"
    /\ ~Truthy(th[1].cached_result)
    /\ th'[1].pc = "idle"
\* The last request of the handler ended in a failed synthesis.
C21_Failed ==
    /\ th[1].pc = "idle"
    /\ th[1].invoked
    /\ th[1].resp.status = 500
\* C21: when the Piper binary fails for a /tts request (non-zero exit code or
\* an exception), the response has status 500 and an empty body and the audio
\* cache is left as it was; no failure is ever held by the cache, and after
\* the failed request the cache holds nothing under the request's key that a
\* later identical request would be served, so that request invokes the
\* binary again.
C21_FailedSynthesis ==
    /\ [][C21_SynthesisFails =>
            /\ th'[1].resp = [status |-> 500, body |-> None]
            /\ th'[1].invoked
            /\ audio_cache' = audio_cache]_vars
    /\ [](\A i \in 1..Len(audio_cache) : audio_cache[i].data \notin {None, Raised})
    /\ [](C21_Failed =>
            \/ ~InCache(audio_cache, th[1].key)
            \/ ~Truthy(CacheGet(audio_cache, th[1].key).data))
    /\ [][(th[1].pc = "got" /\ th[1].resp.status = 0 /\ th'[1].pc # "got"
              /\ ~Truthy(th[1].cached_result)) => th'[1].invoked]_vars
\* A request failed in the binary while the cache held other entries.
C21_Witness == C21_Failed /\ th[1].resp.body = None /\ Len(audio_cache) > 0


\* ---- C22 ----------------------------------------------------------------
\* _get_from_cache finds the entry fresh and returns its data: a hit.
C22_LookupHits ==
    /\ th[1].pc = "get_check"
    /\ th'[1].pc = "got"
\* The key is held before and after the step, with different timestamps.
C22_TimestampChanges(key) ==
    /\ InCache(audio_cache, key)
    /\ InCache(audio_cache', key)
    /\ CacheGet(audio_cache', key).ts # CacheGet(audio_cache, key).ts
C23_Others(cache, key) == SelectSeq(cache, LAMBDA e : e.key # key)
\* _add_to_cache finds the cache full and removes an entry (line 194).
C23_Evicts == th[1].pc = "add_del" /\ th'[1].pc = "add_store"
\* _add_to_cache stores the new entry (line 196).
C23_Stores == th[1].pc = "add_store" /\ th'[1].pc = "idle"
\* A successful synthesis enters _add_to_cache (line 110).
C23_Called == th[1].pc = "got" /\ th'[1].pc \in {"add_min", "add_store"}
\* C23: _add_to_cache called when the cache holds CACHE_MAX_SIZE entries
\* removes exactly one entry, one whose stored timestamp is the smallest in
\* the cache, and then stores the new entry; called when the cache holds fewer
\* entries it removes nothing; every entry other than the evicted one and the
\* stored key is left unchanged.
C23_PiperEviction ==
    /\ [][C23_Called =>
            /\ audio_cache' = audio_cache
            /\ (th'[1].pc = "add_min") = (Len(audio_cache) = CACHE_MAX_SIZE)
            /\ (th'[1].pc = "add_store") = (Len(audio_cache) < CACHE_MAX_SIZE)]_vars
    /\ [][C23_Evicts =>
            /\ Len(audio_cache) = CACHE_MAX_SIZE
            /\ Len(audio_cache') = Len(audio_cache) - 1
            /\ \E i \in 1..Len(audio_cache) :
                  /\ \A j \in 1..Len(audio_cache) : audio_cache[i].ts <= audio_cache[j].ts
                  /\ audio_cache' = RemoveAt(audio_cache, i)]_vars
    /\ [][C23_Stores =>
            /\ InCache(audio_cache', th[1].key)
            /\ CacheGet(audio_cache', th[1].key) =
                   [key |-> th[1].key, data |-> th[1].audio_data, ts |-> now]
            /\ C23_Others(audio_cache', th[1].key) = C23_Others(audio_cache, th[1].key)]_vars
    /\ [][audio_cache' # audio_cache =>
            \/ C23_Evicts
            \/ C23_Stores
            \/ th[1].pc = "get_del"]_vars
\* The new entry has been stored after an eviction from a full cache whose
\* entries had different timestamps, and an entry of before is still held.
C23_Witness ==
    /\ th[1].pc = "idle"
    /\ th[1].resp.status = 200
    /\ th[1].oldest_key # None
    /\ th[1].invoked
    /\ Len(audio_cache) = CACHE_MAX_SIZE
    /\ ~InCache(audio_cache, th[1].oldest_key)
    /\ \E i \in 1..Len(audio_cache) : audio_cache[i].ts < now /\ audio_cache[i].key # th[1].key


\* ---- C24 ----------------------------------------------------------------
\* encode_texts has stored its new embeddings and manage_cache runs (line 165).
C24_ManageCacheRuns ==
    /\ enc.pc = "caching"
    /\ enc.pending = <<>>
    /\ enc'.pc = "idle"
\* C24: when the cache holds more than CACHE_SIZE_LIMIT entries after an
\* encode_texts call has stored its new embeddings, manage_cache removes
\* exactly the CACHE_SIZE_LIMIT // 5 earliest-inserted keys and keeps every
\* later-inserted key, so no embedding stored by the current call (a batch
\* within the limit of /embed) is removed by the pruning that this call
\* triggers; when the cache holds CACHE_SIZE_LIMIT entries or fewer nothing is
\* removed. Entries leave the cache in no other step than this and clear_cache.
C24_EmbeddingCachePruning ==
    /\ [][C24_ManageCacheRuns =>
            IF Len(embedding_cache) > CACHE_SIZE_LIMIT
            THEN /\ Len(embedding_cache') = Len(embedding_cache) - PruneCount
                 /\ enc'.pruned = PruneCount
                 /\ \A i \in 1..Len(embedding_cache) :
                       (embedding_cache[i] \in Range(embedding_cache')) = (i > PruneCount)
                 /\ \A i \in 1..Len(embedding_cache') :
                       embedding_cache'[i] = embedding_cache[i + PruneCount]
                 /\ \A i \in 1..Len(enc.todo) :
                       /\ EmbedCacheKey(enc.todo[i]) \in ECacheKeys(embedding_cache')
                       /\ ECacheGet(embedding_cache', EmbedCacheKey(enc.todo[i]))
                              = Embedding(enc.todo[i])
            ELSE embedding_cache' = embedding_cache /\ enc'.pruned = 0]_vars
    /\ [][(\E k \in ECacheKeys(embedding_cache) : k \notin ECacheKeys(embedding_cache')) =>
            C24_ManageCacheRuns \/ embedding_cache' = <<>>]_vars
\* A full batch of new texts took the cache over the limit and the pruning ran.
C24_Witness ==
    /\ enc.pc = "idle"
    /\ enc.status = 200
    /\ enc.batch = MAX_BATCH
    /\ enc.pruned = PruneCount
    /\ Len(embedding_cache) = CACHE_SIZE_LIMIT + 1 - PruneCount


\* ---- C25 ----------------------------------------------------------------
\* /embed has answered a list with the cache in use, and the model returned
\* whenever it was invoked.
C25_AnsweredWithCache ==
    /\ enc.pc = "idle"
    /\ enc.request.kept
    /\ enc.request.use_cache
    /\ enc.status = 200
\* What encode_texts does for the same list with use_cache false.
C25_WithoutCache == EncodeTexts(enc.request.texts, FALSE, embedding_cache)
C25_NonEmptyListTransparent ==
    (C25_AnsweredWithCache /\ enc.request.texts # <<>>) =>
        /\ ~C25_WithoutCache.raised
        /\ enc.rows = C25_WithoutCache.rows
        /\ enc.rows = ModelEncode(enc.request.texts)
\* With the cache in use the model is invoked exactly when some text of the
\* list is not cached, and then for those texts only, in their order.
C25_InvokesForUncachedOnly ==
    [][(enc.pc = "idle" /\ enc'.request.kept /\ enc'.request.use_cache /\ enc'.status # 400) =>
          LET uncached == SelectSeq(enc'.request.texts,
                              LAMBDA t : EmbedCacheKey(t) \notin ECacheKeys(embedding_cache))
          IN  /\ enc'.invoked = (uncached # <<>>)
              /\ enc'.pc = "caching" => enc'.todo = uncached]_vars
\* A list answered partly from the cache and partly by the model, the cached
\* text after the new one.
C25_MixedAnswer ==
    /\ C25_AnsweredWithCache
    /\ enc.invoked
    /\ Len(enc.request.texts) = MAX_BATCH
    /\ enc.rows # <<>>
    /\ enc.request.texts[1] # enc.request.texts[MAX_BATCH]
    /\ enc.pruned = 0


\* ---- C26 ----------------------------------------------------------------
\* C26: every /embed/image response served from the cache (cached: true)
\* carries the embedding that the model would compute for the image sent in
\* that request; two different images never share a cache entry.
C26_CacheHitForRequestedImage ==
    (vresp.status = 200 /\ vresp.cached) => vresp.embedding = ImageEmbedding(vresp.image)


\* ---- C27 ----------------------------------------------------------------
\* The handler answered its request from the cache, without the binary.
C27_ServedFromCache ==
    /\ th[1].pc = "idle"
    /\ th[1].resp.status = 200
    /\ ~th[1].invoked
\* The requests get different cache keys whenever they differ.
C27_KeysInjective == \A r1, r2 \in KeyRequests : r1 # r2 => CacheKey(r1) # CacheKey(r2)
\* C27: two /tts requests that differ in text or in any of speaker,
\* length_scale, noise_scale, noise_w get different cache keys, so a cache hit
\* never returns audio that was synthesized for different parameters: a
\* response served from the cache is the audio of the request's own text and
\* parameters.
C27_KeysSeparateRequests ==
    C27_ServedFromCache => th[1].resp.body = WavOf(th[1].req)

\* ---- C28 ----------------------------------------------------------------
\* The history list of the frame is non-empty and ends with the frame's
\* current snapshot.
C28_CurrentIsLast(frame) ==
    /\ frame.data # <<>>
    /\ frame.data[Len(frame.data)] = frame.current
\* The frames of the periodic broadcast alone.
C28_BroadcastCurrentIsNewest ==
    mon.pc = "sending" => (mon.message.type = "gpu_stats" /\ C28_CurrentIsLast(mon.message))
\* C28: in every gpu_stats frame sent to a subscriber, whether a periodic
\* broadcast or the on-connect payload, the history list is non-empty and its
\* last element is the same snapshot as the frame's current field.
C28_CurrentIsNewestInHistory ==
    /\ C28_BroadcastCurrentIsNewest
    /\ \A c \in Clients : hmsg[c].type = "gpu_stats" => C28_CurrentIsLast(hmsg[c])


\* ---- C29 ----------------------------------------------------------------
\* C29: any message a connected subscriber sends that is not a get_history
\* command (including text that is not JSON and JSON that is not an object)
\* leaves the subscriber registered in the subscriber set with its connection
\* handler still running, sends no frame in response and leaves the history
\* unchanged: no step taken while a subscriber waits on its open connection
\* ends its handler or takes it out of the set, and its handler sends nothing
\* but the history answer and the ping.
C29_UnrecognisedIgnored ==
    [][\A c \in Clients :
          (hpc[c] = "recv" /\ conn[c] = "open" /\ c \in clients) =>
              /\ c \in clients'
              /\ hpc'[c] \in {"recv", "history_send", "ping_send"}
              /\ (hpc'[c] = "recv") => (hmsg'[c] = hmsg[c])
              /\ (hpc'[c] # "recv") => (history' = history)]_vars


\* ---- C30 ----------------------------------------------------------------
\* The handler thread t is inside _get_from_cache or _add_to_cache.
C30_InCacheCode(t) ==
    th[t].pc \in {"get_read", "get_check", "get_del", "add_min", "add_del", "add_store"}
\* The handler thread t ends with the step, answering 500.
C30_Fails(t) == th'[t].pc = "idle" /\ th'[t].resp.status = 500
\* C30: with several /tts requests handled concurrently, every request whose
\* synthesis succeeded (or whose key is cached and unexpired) is answered 200
\* with its audio under every interleaving of the other requests' cache
\* lookups, expiry removals and evictions; no handler fails because it deletes
\* a cache entry that another thread has already deleted. A handler inside the
\* cache code never ends with status 500, and one that leaves _add_to_cache
\* answers 200 with the audio it synthesized.
C30_NoCacheRaceFailure ==
    [][\A t \in PiperThreads :
          C30_InCacheCode(t) =>
              /\ ~C30_Fails(t)
              /\ (th'[t].pc = "idle" =>
                      th'[t].resp = [status |-> 200, body |-> th[t].audio_data])]_vars
\* The failure of a delete of an entry that is no longer held, alone.
C30_NoDoubleDelete ==
    [][\A t \in PiperThreads : th[t].pc \in {"get_del", "add_del"} => ~C30_Fails(t)]_vars

====
